---- MODULE Spec2Model ----
(***************************************************************************)
(* Model of chess_com_box.py: read three configuration values, GET the     *)
(* player's stats from chess.com, format five dot-justified rating lines,  *)
(* PATCH them into a gist.                                                 *)
(*                                                                         *)
(* Python strings are sequences of code points: each element of a sequence *)
(* is one code point, written as a one-character string, or as "U+XXXX"    *)
(* for a code point outside ASCII.  Len is therefore Python's len().       *)
(***************************************************************************)
EXTENDS Integers, Sequences, FiniteSets, TLC

VARIABLES
    pc,        \* position of the script
    argv,      \* sys.argv
    environ,   \* os.environ restricted to the three names the script reads
    stats,     \* main's local `stats`
    lines,     \* main's local `lines`
    content,   \* main's local `content`
    netlog,    \* the HTTP requests issued so far, in order
    stdout,    \* what was printed, in order
    exitCode,  \* the process's exit status, -1 while it runs
    call,      \* arguments of a function applied on its own
    ret        \* its result

vars == <<pc, argv, environ, stats, lines, content, netlog, stdout, exitCode, call, ret>>

(***************************************************************************)
(* Bounds of the model.                                                    *)
(***************************************************************************)
MaxArgc == 5
MaxRating == 12
MaxTitleLen == 3
MaxValueLen == 2
MaxWidth == 8

(***************************************************************************)
(* Constants of the script.                                                *)
(***************************************************************************)
WIDTH_JUSTIFICATION_SEPARATOR == <<".">>

GIST_TITLE ==
    <<"U+265F", "U+FE0E", " ", "C", "h", "e", "s", "s", ".", "c", "o", "m",
      " ", "R", "a", "t", "i", "n", "g", "s">>

ENV_VAR_GIST_ID == "GIST_ID"

ENV_VAR_GITHUB_TOKEN == "GH_TOKEN"

ENV_VAR_CHESS_COM_USERNAME == "CHESS_COM_USERNAME"

REQUIRED_ENVS == <<ENV_VAR_GIST_ID, ENV_VAR_GITHUB_TOKEN, ENV_VAR_CHESS_COM_USERNAME>>

STATS_URL == "https://api.chess.com/pub/player/{user}/stats"

\* configs with the Rapid and Tactics rows exchanged
configs_swapped ==
    << [key |-> "chess_blitz",  emoji |-> <<"U+26A1">>,
        label |-> <<"B", "l", "i", "t", "z">>, width |-> 52],
       [key |-> "chess_bullet", emoji |-> <<"U+1F685">>,
        label |-> <<"B", "u", "l", "l", "e", "t">>, width |-> 52],
       [key |-> "tactics",      emoji |-> <<"U+1F9E9">>,
        label |-> <<"T", "a", "c", "t", "i", "c", "s">>, width |-> 52],
       [key |-> "chess_rapid",  emoji |-> <<"U+23F2", "U+FE0F">>,
        label |-> <<"R", "a", "p", "i", "d">>, width |-> 53],
       [key |-> "chess_daily",  emoji |-> <<"U+2600", "U+FE0F">>,
        label |-> <<"D", "a", "i", "l", "y">>, width |-> 53] >>

\* main's `configs`: (Key, Emoji, Label, Line Width)
configs ==
    << [key |-> "chess_blitz",  emoji |-> <<"U+26A1">>,
        label |-> <<"B", "l", "i", "t", "z">>, width |-> 52],
       [key |-> "chess_bullet", emoji |-> <<"U+1F685">>,
        label |-> <<"B", "u", "l", "l", "e", "t">>, width |-> 52],
       [key |-> "chess_rapid",  emoji |-> <<"U+23F2", "U+FE0F">>,
        label |-> <<"R", "a", "p", "i", "d">>, width |-> 53],
       [key |-> "tactics",      emoji |-> <<"U+1F9E9">>,
        label |-> <<"T", "a", "c", "t", "i", "c", "s">>, width |-> 52],
       [key |-> "chess_daily",  emoji |-> <<"U+2600", "U+FE0F">>,
        label |-> <<"D", "a", "i", "l", "y">>, width |-> 53] >>

(***************************************************************************)
(* Python values.  A JSON document parses to None, a number, a list or a   *)
(* dict; a dict is a function from its keys to values.                     *)
(***************************************************************************)
PyNone == [t |-> "None"]

PyInt(n) == [t |-> "int", n |-> n]

PyList(n) == [t |-> "list", n |-> n]

PyDict(f) == [t |-> "dict", m |-> f]

EmptyDict == PyDict(<<>>)

\* bool(v)
Truthy(v) ==
    CASE v.t = "None" -> FALSE
      [] v.t = "int"  -> v.n # 0
      [] v.t = "list" -> v.n # 0
      [] v.t = "dict" -> DOMAIN v.m # {}

RECURSIVE Digits(_)
Digits(n) ==
    IF n < 10
    THEN <<SubSeq(<<"0", "1", "2", "3", "4", "5", "6", "7", "8", "9">>, n + 1, n + 1)[1]>>
    ELSE Digits(n \div 10)
         \o <<SubSeq(<<"0", "1", "2", "3", "4", "5", "6", "7", "8", "9">>,
                     (n % 10) + 1, (n % 10) + 1)[1]>>

\* format(v, "") for the values an f-string is given here
PyStr(v) ==
    CASE v.t = "None" -> <<"N", "o", "n", "e">>
      [] v.t = "int"  -> Digits(v.n)
      [] v.t = "list" -> <<"[">> \o [k \in 1..v.n |-> "_"] \o <<"]">>
      [] v.t = "dict" -> <<"{">> \o [k \in 1..Cardinality(DOMAIN v.m) |-> "_"] \o <<"}">>

\* The result of an expression: a value, or the exception it raised.
Value(v) == [exc |-> "", val |-> v]

Raise(e) == [exc |-> e, val |-> PyNone]

\* obj.get(key, default): only a dict has the attribute
DictGet(obj, key, default) ==
    IF obj.t = "dict"
    THEN Value(IF key \in DOMAIN obj.m THEN obj.m[key] ELSE default)
    ELSE Raise("AttributeError")

\* s * n for a string s: the empty string when n <= 0
RECURSIVE StrMul(_, _)
StrMul(s, n) == IF n <= 0 THEN <<>> ELSE s \o StrMul(s, n - 1)

\* sep.join(strs)
RECURSIVE StrJoin(_, _)
StrJoin(sep, strs) ==
    IF strs = <<>> THEN <<>>
    ELSE IF Len(strs) = 1 THEN strs[1]
    ELSE strs[1] \o sep \o StrJoin(sep, Tail(strs))

TitleAndValue(title, value) == [title |-> title, value |-> value]

(***************************************************************************)
(* get_adjusted_line                                                       *)
(***************************************************************************)
\* get_adjusted_line counting one boundary space instead of two
get_adjusted_line_narrow(stat, max_line_length) ==
    LET spacing == max_line_length - (Len(stat.title) + Len(stat.value) + 1)
        separator == <<" ">> \o StrMul(WIDTH_JUSTIFICATION_SEPARATOR, spacing) \o <<" ">>
    IN  stat.title \o separator \o stat.value

get_adjusted_line(stat, max_line_length) ==
    LET spacing == max_line_length - (Len(stat.title) + Len(stat.value) + 2)
        separator == <<" ">> \o StrMul(WIDTH_JUSTIFICATION_SEPARATOR, spacing) \o <<" ">>
    IN  stat.title \o separator \o stat.value

(***************************************************************************)
(* get_rating_line                                                         *)
(***************************************************************************)
Tactics == <<"T", "a", "c", "t", "i", "c", "s">>

TREND == <<" ", "U+1F4C8">>

NA == <<"N", "/", "A">>

\* an except clause naming KeyError in place of AttributeError
RatingLineCaughtKeyError == {"KeyError", "TypeError"}

\* the exceptions the except clause of get_rating_line names
RatingLineCaught == {"AttributeError", "TypeError"}

get_rating_line(stats_key, chess_emoji, chess_format, chess_stats) ==
    LET data   == DictGet(chess_stats, stats_key, EmptyDict)
        field  == IF chess_format = Tactics THEN "highest" ELSE "last"
        sub    == IF data.exc = "" THEN DictGet(data.val, field, EmptyDict) ELSE data
        rating == IF sub.exc = "" THEN DictGet(sub.val, "rating", PyNone) ELSE sub
        title  == chess_emoji \o <<" ">> \o chess_format
    IN  IF rating.exc = ""
        THEN Value(TitleAndValue(title,
                 IF Truthy(rating.val) THEN PyStr(rating.val) \o TREND ELSE NA))
        ELSE IF rating.exc \in RatingLineCaught
        THEN Value(TitleAndValue(title, NA))
        ELSE Raise(rating.exc)

(***************************************************************************)
(* The requests library, as the script uses it.  An exchange is what the   *)
(* network does with one request: the transport fails, or a response with  *)
(* a status and a body comes back.                                         *)
(***************************************************************************)
\* requests.get / requests.patch with timeout=10
requests_send(exchange) ==
    IF exchange.kind = "response" THEN Value(exchange) ELSE Raise(exchange.kind)

\* Response.raise_for_status(): HTTPError for a 4xx or 5xx status
raise_for_status(response) ==
    IF 400 <= response.status /\ response.status < 600
    THEN Raise("HTTPError")
    ELSE Value(PyNone)

\* Response.json(): the parsed body, or requests' JSONDecodeError
response_json(response) ==
    IF response.body.json THEN Value(response.body.val) ELSE Raise("JSONDecodeError")

\* the classes of requests.exceptions that derive from RequestException
RequestException == {"RequestException", "ConnectionError", "Timeout", "HTTPError",
                     "JSONDecodeError"}

(***************************************************************************)
(* validate_and_init                                                       *)
(***************************************************************************)
\* env not in os.environ: the empty string counts as present
EnvAbsentUnsetOnly(env) == env \notin DOMAIN environ

\* not os.environ.get(env): unset, or set to the empty string
EnvAbsent(env) == env \notin DOMAIN environ \/ environ[env] = ""

validate_and_init ==
    LET env_vars_absent == SelectSeq(REQUIRED_ENVS, EnvAbsent)
    IN  IF env_vars_absent # <<>>
        THEN [ok |-> FALSE,
              out |-> <<[msg |-> "Error: Missing environment variables", names |-> env_vars_absent]>>]
        ELSE [ok |-> TRUE, out |-> <<>>]

(***************************************************************************)
(* get_chess_com_stats                                                     *)
(***************************************************************************)
\* except requests.HTTPError
FetchCaughtStatusOnly == {"HTTPError"}

\* except requests.RequestException
FetchCaught == RequestException

\* get_chess_com_stats sending the request a second time after a failure
get_chess_com_stats_retry(user, exchange) ==
    LET request == [op |-> "GET", url |-> <<STATS_URL, user>>, user_agent |-> user,
                    timeout |-> 10, result |-> exchange]
        response == requests_send(exchange)
        checked == IF response.exc = "" THEN raise_for_status(response.val) ELSE response
        parsed == IF checked.exc = "" THEN response_json(response.val) ELSE checked
    IN  IF parsed.exc = ""
        THEN [exc |-> "", val |-> parsed.val, sent |-> <<request>>, out |-> <<>>]
        ELSE [exc |-> "", val |-> EmptyDict, sent |-> <<request, request>>,
              out |-> <<[msg |-> "Error fetching Chess.com stats", e |-> parsed.exc]>>]

get_chess_com_stats(user, exchange) ==
    LET request == [op |-> "GET", url |-> <<STATS_URL, user>>, user_agent |-> user,
                    timeout |-> 10, result |-> exchange]
        response == requests_send(exchange)
        checked == IF response.exc = "" THEN raise_for_status(response.val) ELSE response
        parsed == IF checked.exc = "" THEN response_json(response.val) ELSE checked
    IN  IF parsed.exc = ""
        THEN [exc |-> "", val |-> parsed.val, sent |-> <<request>>, out |-> <<>>]
        ELSE IF parsed.exc \in FetchCaught
        THEN [exc |-> "", val |-> EmptyDict, sent |-> <<request>>,
              out |-> <<[msg |-> "Error fetching Chess.com stats", e |-> parsed.exc]>>]
        ELSE [exc |-> parsed.exc, val |-> PyNone, sent |-> <<request>>, out |-> <<>>]

(***************************************************************************)
(* update_gist                                                             *)
(***************************************************************************)
\* except requests.RequestException
UpdateCaught == RequestException

update_gist(title, text, exchange) ==
    IF ENV_VAR_GITHUB_TOKEN \notin DOMAIN environ \/ ENV_VAR_GIST_ID \notin DOMAIN environ
    THEN [exc |-> "KeyError", sent |-> <<>>, out |-> <<>>]
    ELSE
    LET access_token == environ[ENV_VAR_GITHUB_TOKEN]
        gist_id == environ[ENV_VAR_GIST_ID]
        request == [op |-> "PATCH", gist_id |-> gist_id, bearer |-> access_token,
                    file |-> title, content |-> text, timeout |-> 10, result |-> exchange]
        r == requests_send(exchange)
        checked == IF r.exc = "" THEN raise_for_status(r.val) ELSE r
    IN  IF checked.exc = ""
        THEN [exc |-> "", sent |-> <<request>>,
              out |-> <<[msg |-> "Successfully updated Gist", text |-> text]>>]
        ELSE IF checked.exc \in UpdateCaught
        THEN [exc |-> "", sent |-> <<request>>,
              out |-> <<[msg |-> "Error updating GitHub Gist", e |-> checked.exc]>>]
        ELSE [exc |-> checked.exc, sent |-> <<request>>, out |-> <<>>]

(***************************************************************************)
(* The functions applied on their own, to arguments drawn from bounded     *)
(* sets.                                                                   *)
(***************************************************************************)
NoCall == [fn |-> ""]

PartialFns(K, V) == UNION {[D -> V] : D \in SUBSET K}

Strings(alphabet, maxLen) == UNION {[1..n -> alphabet] : n \in 0..maxLen}

MainIdle ==
    /\ pc = "Call"
    /\ argv = <<>>
    /\ environ = <<>>
    /\ stats = PyNone
    /\ lines = <<>>
    /\ content = <<>>
    /\ netlog = <<>>
    /\ stdout = <<>>
    /\ exitCode = -1

MainUnchanged == UNCHANGED <<argv, environ, stats, lines, content, netlog, stdout, exitCode>>

\* get_adjusted_line(stat, max_line_length) for every short title, value and width
FormatCalls ==
    [fn : {"get_adjusted_line"},
     stat : {TitleAndValue(t, v) : t \in Strings({"T", "."}, MaxTitleLen),
                                   v \in Strings({"9", "A"}, MaxValueLen)},
     width : 0..MaxWidth]

InitFormat ==
    /\ MainIdle
    /\ call \in FormatCalls
    /\ ret = NoCall

ApplyAdjustedLine ==
    /\ pc = "Call"
    /\ call.fn = "get_adjusted_line"
    /\ pc' = "Returned"
    /\ ret' = [fn |-> call.fn, exc |-> "", val |-> get_adjusted_line(call.stat, call.width)]
    /\ UNCHANGED call
    /\ MainUnchanged

NextFormat == ApplyAdjustedLine

SpecFormat == InitFormat /\ [][NextFormat]_vars

\* The payload shapes get_rating_line is given: at each depth of the lookup
\* chain the entry is absent, None, a scalar, a list or a dict.
RatingValues == {PyNone, PyList(0), EmptyDict} \cup {PyInt(n) : n \in 0..MaxRating}

SubEntries ==
    {PyNone, PyInt(7), PyList(1)} \cup {PyDict(f) : f \in PartialFns({"rating"}, RatingValues)}

FormatEntries ==
    {PyNone, PyInt(7), PyList(1)}
    \cup {PyDict(f) : f \in PartialFns({"last", "highest"}, SubEntries)}

Payloads ==
    {PyNone, PyInt(7), PyList(1)}
    \cup {PyDict(f) : f \in PartialFns({"chess_blitz"}, FormatEntries)}

RatingCalls ==
    [fn : {"get_rating_line"},
     stats_key : {"chess_blitz", "tactics"},
     chess_emoji : {<<"U+26A1">>, <<"U+2600", "U+FE0F">>},
     chess_format : {Tactics, <<"B", "l", "i", "t", "z">>, <<"t", "a", "c", "t", "i", "c", "s">>},
     chess_stats : Payloads]

InitRating ==
    /\ MainIdle
    /\ call \in RatingCalls
    /\ ret = NoCall

ApplyRatingLine ==
    /\ pc = "Call"
    /\ call.fn = "get_rating_line"
    /\ pc' = "Returned"
    /\ LET r == get_rating_line(call.stats_key, call.chess_emoji, call.chess_format,
                                call.chess_stats)
       IN  ret' = [fn |-> call.fn, exc |-> r.exc, val |-> r.val]
    /\ UNCHANGED call
    /\ MainUnchanged

NextRating == ApplyRatingLine

SpecRating == InitRating /\ [][NextRating]_vars

(***************************************************************************)
(* The script: the __main__ block and main().                              *)
(***************************************************************************)
\* sys.argv: the program name, then up to MaxArgc - 1 arguments, all of them
\* non-empty or one of them the empty string
Argvs ==
    {<<"chess_com_box.py">> \o a :
        a \in {x \in Strings({"", "cli"}, MaxArgc - 1) :
                  Cardinality({i \in 1..Len(x) : x[i] = ""}) <= 1}}

\* os.environ: each of the three names is unset, empty or set
Environs == PartialFns({ENV_VAR_GIST_ID, ENV_VAR_GITHUB_TOKEN, ENV_VAR_CHESS_COM_USERNAME},
                       {"", "env"})

\* What the stats endpoint may answer with.
GoodEntry(n) ==
    PyDict([f \in {"last", "highest"} |->
               PyDict([k \in {"rating"} |-> PyInt(IF f = "last" THEN 1500 + n ELSE 1900 + n)])])

FullStats ==
    PyDict([k \in {configs[i].key : i \in 1..Len(configs)} |->
               GoodEntry(CHOOSE i \in 1..Len(configs) : configs[i].key = k)])

RaggedStats ==
    PyDict([k \in {configs[i].key : i \in 1..Len(configs)} |->
               CASE k = "chess_blitz"  -> PyNone
                 [] k = "chess_bullet" -> PyDict([f \in {"last"} |-> PyNone])
                 [] k = "chess_rapid"  -> PyDict([f \in {"last"} |-> EmptyDict])
                 [] k = "tactics"      -> PyDict([f \in {"last"} |-> PyDict([r \in {"rating"} |-> PyInt(1500)])])
                 [] k = "chess_daily"  -> PyDict([f \in {"last"} |-> PyDict([r \in {"rating"} |-> PyInt(987)])])])

Restrict(d, K) == PyDict([k \in K |-> d.m[k]])

Bodies ==
    {[json |-> FALSE]}
    \cup {[json |-> TRUE, val |-> v] : v \in {PyNone, PyInt(7), PyList(1)}}
    \cup {[json |-> TRUE, val |-> RaggedStats]}
    \cup {[json |-> TRUE, val |-> Restrict(FullStats, K)] : K \in SUBSET DOMAIN FullStats.m}

GetExchanges ==
    {[kind |-> "ConnectionError"], [kind |-> "Timeout"]}
    \cup {[kind |-> "response", status |-> s, body |-> [json |-> FALSE]] : s \in {404, 500}}
    \cup {[kind |-> "response", status |-> 200, body |-> b] : b \in Bodies}

PatchExchanges ==
    {[kind |-> "ConnectionError"], [kind |-> "Timeout"]}
    \cup {[kind |-> "response", status |-> s, body |-> [json |-> FALSE]] : s \in {200, 401, 500}}

Init ==
    /\ pc = "Start"
    /\ argv \in Argvs
    /\ environ \in Environs
    /\ stats = PyNone
    /\ lines = <<>>
    /\ content = <<>>
    /\ netlog = <<>>
    /\ stdout = <<>>
    /\ exitCode = -1
    /\ call = NoCall
    /\ ret = NoCall

\* an exception nothing catches ends the process with status 1
Crash == pc' = "Crashed" /\ exitCode' = 1

\* __main__, up to the call of main(): the command line overrides the environment
ParseArgs ==
    /\ pc = "Start"
    /\ environ' =
          IF Len(argv) = 5
          THEN [k \in DOMAIN environ \cup {ENV_VAR_GIST_ID, ENV_VAR_GITHUB_TOKEN,
                                           ENV_VAR_CHESS_COM_USERNAME} |->
                   CASE k = ENV_VAR_GIST_ID -> argv[3]
                     [] k = ENV_VAR_GITHUB_TOKEN -> argv[4]
                     [] k = ENV_VAR_CHESS_COM_USERNAME -> argv[5]]
          ELSE environ
    /\ pc' = "Main"
    /\ UNCHANGED <<argv, stats, lines, content, netlog, stdout, exitCode, call, ret>>

\* main: if not validate_and_init(): sys.exit(1)
Validate ==
    /\ pc = "Main"
    /\ LET v == validate_and_init
       IN  /\ stdout' = stdout \o v.out
           /\ IF v.ok
              THEN pc' = "Fetching" /\ UNCHANGED exitCode
              ELSE pc' = "Failed" /\ exitCode' = 1
    /\ UNCHANGED <<argv, environ, stats, lines, content, netlog, call, ret>>

\* main: stats = get_chess_com_stats(username)
FetchStats ==
    /\ pc = "Fetching"
    /\ \E exchange \in GetExchanges :
          LET username == environ[ENV_VAR_CHESS_COM_USERNAME]
              r == get_chess_com_stats(username, exchange)
          IN  /\ netlog' = netlog \o r.sent
              /\ stdout' = stdout \o r.out
              /\ IF r.exc = ""
                 THEN stats' = r.val /\ pc' = "Formatting" /\ UNCHANGED exitCode
                 ELSE Crash /\ UNCHANGED stats
    /\ UNCHANGED <<argv, environ, lines, content, call, ret>>

\* main: the loop over configs, and the join of its lines
FormatLines ==
    /\ pc = "Formatting"
    /\ LET stat_line == [i \in 1..Len(configs) |->
                            get_rating_line(configs[i].key, configs[i].emoji,
                                            configs[i].label, stats)]
       IN  IF \A i \in 1..Len(configs) : stat_line[i].exc = ""
           THEN /\ lines' = [i \in 1..Len(configs) |->
                                get_adjusted_line(stat_line[i].val, configs[i].width)]
                /\ content' = StrJoin(<<"\n">>, lines')
                /\ pc' = "Publishing"
                /\ UNCHANGED exitCode
           ELSE Crash /\ UNCHANGED <<lines, content>>
    /\ UNCHANGED <<argv, environ, stats, netlog, stdout, call, ret>>

\* main: update_gist(GIST_TITLE, content)
UpdateGist ==
    /\ pc = "Publishing"
    /\ \E exchange \in PatchExchanges :
          LET r == update_gist(GIST_TITLE, content, exchange)
          IN  /\ netlog' = netlog \o r.sent
              /\ stdout' = stdout \o r.out
              /\ IF r.exc = ""
                 THEN pc' = "Returned" /\ UNCHANGED exitCode
                 ELSE Crash
    /\ UNCHANGED <<argv, environ, stats, lines, content, call, ret>>

\* __main__, after main() returned: print the elapsed time, end with status 0
Finish ==
    /\ pc = "Returned"
    /\ stdout' = Append(stdout, [msg |-> "Executed in"])
    /\ pc' = "Done"
    /\ exitCode' = 0
    /\ UNCHANGED <<argv, environ, stats, lines, content, netlog, call, ret>>

Next == ParseArgs \/ Validate \/ FetchStats \/ FormatLines \/ UpdateGist \/ Finish

Spec == Init /\ [][Next]_vars

\* The script is one sequential thread and both requests time out: every step
\* that can be taken is taken.
FairSpec == Spec /\ WF_vars(Next)

(***************************************************************************)
(* Properties.                                                             *)
(***************************************************************************)
\* the operations of the requests issued so far, in order
Ops == [i \in 1..Len(netlog) |-> netlog[i].op]

\* validation has passed
Validated == pc \in {"Fetching", "Formatting", "Publishing", "Returned", "Done", "Crashed"}

\* the required names main() finds absent: unset, or set to the empty string
AbsentAtMain ==
    {k \in {"GIST_ID", "GH_TOKEN", "CHESS_COM_USERNAME"} :
        k \notin DOMAIN environ \/ environ[k] = ""}

\* the fetch did not deliver a parsed body
FetchFailed(x) == x.kind # "response" \/ x.status >= 400 \/ ~x.body.json

\* s.split("\n")
RECURSIVE SplitLines(_)
SplitLines(s) ==
    IF \A i \in 1..Len(s) : s[i] # "\n"
    THEN <<s>>
    ELSE LET i == CHOOSE i \in 1..Len(s) : s[i] = "\n" /\ \A j \in 1..(i - 1) : s[j] # "\n"
         IN  <<SubSeq(s, 1, i - 1)>> \o SplitLines(SubSeq(s, i + 1, Len(s)))

\* C1: in a run whose configuration passed validation there is exactly one
\* GET and exactly one PATCH, the GET is over before the PATCH is issued, and
\* the PATCH is issued whatever the GET came back with.
C1_OneFetchThenOnePublish ==
    Validated =>
        /\ Ops \in {<<>>, <<"GET">>, <<"GET", "PATCH">>}
        /\ (pc = "Fetching" => Ops = <<>>)
        /\ (pc \in {"Formatting", "Publishing"} => Ops = <<"GET">>)
        /\ (pc \in {"Returned", "Done"} => Ops = <<"GET", "PATCH">>)

\* C1 witness: a finished run whose fetch timed out and that still published
C1_Witness ==
    /\ pc = "Done"
    /\ Ops = <<"GET", "PATCH">>
    /\ netlog[1].result.kind = "Timeout"
    /\ stats = EmptyDict

\* C2: with a required value absent when main() starts (unset or empty) the
\* process ends with status 1 and has issued no request; with all three present
\* it never ends with status 1.
C2_MissingConfigExitsOne ==
    pc \notin {"Start", "Main"} =>
        IF AbsentAtMain # {}
        THEN pc = "Failed" /\ exitCode = 1 /\ netlog = <<>>
        ELSE pc # "Failed" /\ exitCode # 1

\* C2 witness: the run failed because exactly one value was set to the empty string
C2_Witness ==
    /\ pc = "Failed"
    /\ Cardinality(AbsentAtMain) = 1
    /\ \E k \in AbsentAtMain : k \in DOMAIN environ
    /\ exitCode = 1

\* C3: once validation has passed the run reaches normal completion with status
\* 0 whatever the fetch and the publish came back with; no exception leaves
\* get_chess_com_stats, get_rating_line or update_gist, and status 1 only comes
\* from missing configuration.
C3_AlwaysCompletes ==
    /\ [](pc # "Crashed" /\ (exitCode = 1 => pc = "Failed"))
    /\ (Validated ~> (pc = "Done" /\ exitCode = 0))

\* C3 witness: status 0 after a fetch that got a non-mapping body and a publish
\* that failed in transport
C3_Witness ==
    /\ pc = "Done"
    /\ exitCode = 0
    /\ Len(netlog) = 2
    /\ ~FetchFailed(netlog[1].result)
    /\ stats.t # "dict"
    /\ netlog[2].result.kind = "ConnectionError"

\* C4: get_chess_com_stats always returns a mapping, never null: the empty
\* mapping after one request on a transport error, a non-success status or an
\* unparseable body, and the parsed payload on success.
C4_FetchReturnsMapping ==
    pc \in {"Formatting", "Publishing", "Returned", "Done"} =>
        /\ stats.t = "dict"
        /\ Len(SelectSeq(Ops, LAMBDA o : o = "GET")) = 1
        /\ IF FetchFailed(netlog[1].result)
           THEN stats = EmptyDict
           ELSE stats = netlog[1].result.body.val

\* C4 as far as the code goes: one request; the empty mapping on every failure,
\* and on success whatever the body parsed to
C4_FetchReturnsParsedOrEmpty ==
    pc \in {"Formatting", "Publishing", "Returned", "Done"} =>
        /\ Len(SelectSeq(Ops, LAMBDA o : o = "GET")) = 1
        /\ IF FetchFailed(netlog[1].result)
           THEN stats = EmptyDict
           ELSE stats = netlog[1].result.body.val

ExpectedLabels ==
    << <<"B", "l", "i", "t", "z">>, <<"B", "u", "l", "l", "e", "t">>,
       <<"R", "a", "p", "i", "d">>, <<"T", "a", "c", "t", "i", "c", "s">>,
       <<"D", "a", "i", "l", "y">> >>

ExpectedWidths == <<52, 52, 53, 52, 53>>

\* line is "<emoji> <label> ..." with an emoji of one or two code points
StartsWithLabel(line, label) ==
    \E n \in 1..2 :
        /\ Len(line) >= n + 2 + Len(label)
        /\ \A j \in 1..n : line[j] # " "
        /\ line[n + 1] = " "
        /\ SubSeq(line, n + 2, n + 1 + Len(label)) = label
        /\ line[n + 2 + Len(label)] = " "

EndsWith(line, suffix) ==
    /\ Len(line) >= Len(suffix)
    /\ SubSeq(line, Len(line) - Len(suffix) + 1, Len(line)) = suffix

\* C5: the content given to update_gist is five newline-joined lines, Blitz,
\* Bullet, Rapid, Tactics, Daily in that order, for every payload; for the empty
\* payload every line ends in N/A and has its width, 52, 52, 53, 52, 53.
C5_FiveLinesInOrder ==
    \A i \in 1..Len(netlog) :
        netlog[i].op = "PATCH" =>
            LET ls == SplitLines(netlog[i].content)
            IN  /\ Len(ls) = 5
                /\ \A k \in 1..5 : StartsWithLabel(ls[k], ExpectedLabels[k])
                /\ stats = EmptyDict =>
                       \A k \in 1..5 : EndsWith(ls[k], <<" ", "N", "/", "A">>)
                                       /\ Len(ls[k]) = ExpectedWidths[k]

\* C5 witness: a publish of the lines made from the empty payload of a failed fetch
C5_Witness ==
    /\ Ops = <<"GET", "PATCH">>
    /\ netlog[1].result.kind = "ConnectionError"
    /\ stats = EmptyDict
    /\ Len(SplitLines(netlog[2].content)) = 5

\* C5 also for a payload with some of the five keys: a rated line among N/A lines
C5_PartialPayloadReached ==
    /\ Ops = <<"GET", "PATCH">>
    /\ stats.t = "dict"
    /\ DOMAIN stats.m = {"chess_rapid", "chess_daily"}
    /\ EndsWith(SplitLines(netlog[2].content)[3], <<" ", "1", "5", "0", "3", " ", "U+1F4C8">>)
    /\ EndsWith(SplitLines(netlog[2].content)[4], <<" ", "N", "/", "A">>)

\* the rule of the specification: Tactics reads `highest`, every other label `last`
SelectedField(c) == IF c.chess_format = <<"T", "a", "c", "t", "i", "c", "s">> THEN "highest" ELSE "last"

\* the lookup chain of a call reaches an entry under "rating"
ReachesRating(c) ==
    /\ c.chess_stats.t = "dict"
    /\ c.stats_key \in DOMAIN c.chess_stats.m
    /\ c.chess_stats.m[c.stats_key].t = "dict"
    /\ SelectedField(c) \in DOMAIN c.chess_stats.m[c.stats_key].m
    /\ c.chess_stats.m[c.stats_key].m[SelectedField(c)].t = "dict"
    /\ "rating" \in DOMAIN c.chess_stats.m[c.stats_key].m[SelectedField(c)].m

SelectedRating(c) == c.chess_stats.m[c.stats_key].m[SelectedField(c)].m["rating"]

IsString(s) == s \in Seq({"N", "/", "A", " ", "[", "]", "{", "}", "_", "T", "a", "c", "t", "i", "s",
                          "B", "l", "z", "U+26A1", "U+2600", "U+FE0F", "U+1F4C8",
                          "0", "1", "2", "3", "4", "5", "6", "7", "8", "9"})

\* C6: get_rating_line never raises, whatever the shape of the payload; it
\* returns a pair of strings with the title "{emoji} {formatLabel}", and the
\* value is exactly N/A whenever the rating is missing at some depth.
C6_RatingLineNeverRaises ==
    (pc = "Returned" /\ ret.fn = "get_rating_line") =>
        /\ ret.exc = ""
        /\ DOMAIN ret.val = {"title", "value"}
        /\ IsString(ret.val.title) /\ IsString(ret.val.value)
        /\ ret.val.title = call.chess_emoji \o <<" ">> \o call.chess_format
        /\ (~ReachesRating(call) \/ SelectedRating(call).t = "None")
               => ret.val.value = <<"N", "/", "A">>

\* C6 witness: the format entry is null, and the value is N/A
C6_Witness ==
    /\ pc = "Returned"
    /\ ret.fn = "get_rating_line"
    /\ call.chess_stats.t = "dict"
    /\ call.stats_key \in DOMAIN call.chess_stats.m
    /\ call.chess_stats.m[call.stats_key].t = "None"
    /\ ret.val.value = <<"N", "/", "A">>

\* C7: when the selected sub-field (highest for Tactics, last otherwise) holds a
\* rating number R >= 0, the value is exactly "{R} <trend glyph>", whatever the
\* other sub-field holds.
C7_PresentRatingRendered ==
    (pc = "Returned" /\ ret.fn = "get_rating_line" /\ ReachesRating(call)
        /\ SelectedRating(call).t = "int") =>
        /\ ret.exc = ""
        /\ ret.val.value = Digits(SelectedRating(call).n) \o <<" ", "U+1F4C8">>

\* C7 for the ratings the code renders: every R >= 1
C7_NonZeroRatingRendered ==
    (pc = "Returned" /\ ret.fn = "get_rating_line" /\ ReachesRating(call)
        /\ SelectedRating(call).t = "int" /\ SelectedRating(call).n # 0) =>
        /\ ret.exc = ""
        /\ ret.val.value = Digits(SelectedRating(call).n) \o <<" ", "U+1F4C8">>

\* C8: started with exactly four tokens, the three values come from the
\* arguments and override the environment; with any other number of tokens the
\* environment is left as it was.
C8_FourTokensOverride ==
    [][pc = "Start" =>
          IF Len(argv) = 4
          THEN environ' = [k \in {"GIST_ID", "GH_TOKEN", "CHESS_COM_USERNAME"} |->
                              CASE k = "GIST_ID" -> argv[2]
                                [] k = "GH_TOKEN" -> argv[3]
                                [] k = "CHESS_COM_USERNAME" -> argv[4]]
          ELSE environ' = environ]_vars

\* C8 as the code has it: five tokens, of which the last three are used
C8_FiveTokensOverride ==
    [][pc = "Start" =>
          IF Len(argv) = 5
          THEN environ' = [k \in {"GIST_ID", "GH_TOKEN", "CHESS_COM_USERNAME"} |->
                              CASE k = "GIST_ID" -> argv[3]
                                [] k = "GH_TOKEN" -> argv[4]
                                [] k = "CHESS_COM_USERNAME" -> argv[5]]
          ELSE environ' = environ]_vars

\* C9: with targetWidth >= len(title) + len(value) + 2 the line has length
\* exactly targetWidth and is the title, a space,
\* targetWidth - len(title) - len(value) - 2 dots, a space, the value.
C9_ExactWidth ==
    (pc = "Returned" /\ ret.fn = "get_adjusted_line"
        /\ call.width >= Len(call.stat.title) + Len(call.stat.value) + 2) =>
        LET t == call.stat.title
            v == call.stat.value
            n == call.width - Len(t) - Len(v) - 2
            line == ret.val
        IN  /\ ret.exc = ""
            /\ Len(line) = call.width
            /\ SubSeq(line, 1, Len(t)) = t
            /\ line[Len(t) + 1] = " "
            /\ \A k \in 1..n : line[Len(t) + 1 + k] = "."
            /\ line[Len(t) + n + 2] = " "
            /\ SubSeq(line, Len(t) + n + 3, Len(line)) = v

\* C9 witness: a line with a title, a value and at least two dots
C9_Witness ==
    /\ pc = "Returned"
    /\ ret.fn = "get_adjusted_line"
    /\ Len(call.stat.title) >= 1
    /\ Len(call.stat.value) >= 1
    /\ call.width >= Len(call.stat.title) + Len(call.stat.value) + 4
    /\ Len(ret.val) = call.width

\* C10: with targetWidth < len(title) + len(value) + 2 get_adjusted_line does
\* not raise, puts no dot between the two spaces, and returns a line no longer
\* than targetWidth.
C10_NegativeSpacingWithinWidth ==
    (pc = "Returned" /\ ret.fn = "get_adjusted_line"
        /\ call.width < Len(call.stat.title) + Len(call.stat.value) + 2) =>
        /\ ret.exc = ""
        /\ ret.val = call.stat.title \o <<" ", " ">> \o call.stat.value
        /\ Len(ret.val) <= call.width

\* C10 as far as the code goes: no exception and no dot, the line being
\* len(title) + len(value) + 2 long
C10_NegativeSpacingNoDots ==
    (pc = "Returned" /\ ret.fn = "get_adjusted_line"
        /\ call.width < Len(call.stat.title) + Len(call.stat.value) + 2) =>
        /\ ret.exc = ""
        /\ ret.val = call.stat.title \o <<" ", " ">> \o call.stat.value
        /\ Len(ret.val) = Len(call.stat.title) + Len(call.stat.value) + 2

====
